---- MODULE Spec2Model ----
(***************************************************************************)
(* Model of auto_filer.py: File.name_check, File.find_par_dir,             *)
(* File.find_sub_dir, AutoFile.run_matches and AutoFile.run_transfers.     *)
(* Python strings and paths are sequences of one-character strings.        *)
(***************************************************************************)
EXTENDS Integers, Sequences, FiniteSets, TLC

\* ------------------------------------------------------------------------
\* Bounds
\* ------------------------------------------------------------------------
MaxFiles == 2     \* most files listed in the source root directory
MaxTop == 2       \* most top-level entries of the target tree
MaxRuns == 2      \* most calls of run_matches on one AutoFile object

\* ------------------------------------------------------------------------
\* Python str operations
\* ------------------------------------------------------------------------
Uppers == <<"A","B","C","D","E","F","G","H","I","J","K","L","M",
            "N","O","P","Q","R","S","T","U","V","W","X","Y","Z">>
Lowers == <<"a","b","c","d","e","f","g","h","i","j","k","l","m",
            "n","o","p","q","r","s","t","u","v","w","x","y","z">>

\* str.lower() on one character
LowerChar(c) ==
    IF \E k \in 1..Len(Uppers) : Uppers[k] = c
    THEN Lowers[CHOOSE k \in 1..Len(Uppers) : Uppers[k] = c]
    ELSE c

\* str.upper() on one character
UpperChar(c) ==
    IF \E k \in 1..Len(Lowers) : Lowers[k] = c
    THEN Uppers[CHOOSE k \in 1..Len(Lowers) : Lowers[k] = c]
    ELSE c

\* str.lower()
lower(s) == [k \in 1..Len(s) |-> LowerChar(s[k])]

\* str.upper()
upper(s) == [k \in 1..Len(s) |-> UpperChar(s[k])]

\* str.replace(" ", "")
RECURSIVE remove_spaces(_)
remove_spaces(s) ==
    IF s = << >> THEN << >>
    ELSE IF Head(s) = " " THEN remove_spaces(Tail(s))
    ELSE <<Head(s)>> \o remove_spaces(Tail(s))

\* str.lstrip() / str.rstrip() / str.strip()
RECURSIVE lstrip(_)
lstrip(s) == IF s # << >> /\ Head(s) = " " THEN lstrip(Tail(s)) ELSE s

RECURSIVE rstrip(_)
rstrip(s) ==
    IF s # << >> /\ s[Len(s)] = " " THEN rstrip(SubSeq(s, 1, Len(s) - 1)) ELSE s

strip(s) == rstrip(lstrip(s))

\* the Python test  sub in s  on strings
Contains(sub, s) ==
    \E k \in 0..(Len(s) - Len(sub)) : SubSeq(s, k + 1, k + Len(sub)) = sub

\* str.split(sep) for a one-character separator
RECURSIVE SplitFrom(_, _, _)
SplitFrom(s, sep, cur) ==
    IF s = << >> THEN <<cur>>
    ELSE IF Head(s) = sep THEN <<cur>> \o SplitFrom(Tail(s), sep, << >>)
    ELSE SplitFrom(Tail(s), sep, Append(cur, Head(s)))

split(s, sep) == SplitFrom(s, sep, << >>)

\* position of the last occurrence of c in s, 0 when absent (str.rfind + 1)
LastIndex(s, c) ==
    IF \E k \in 1..Len(s) : s[k] = c
    THEN CHOOSE k \in 1..Len(s) : s[k] = c /\ \A j \in (k + 1)..Len(s) : s[j] # c
    ELSE 0

\* os.path.splitext(name)[0]: cut at the last dot unless only dots precede it
splitext_root(p) ==
    LET sepIndex == LastIndex(p, "/")
        dotIndex == LastIndex(p, ".")
    IN IF dotIndex > sepIndex
          /\ \E k \in (sepIndex + 1)..(dotIndex - 1) : p[k] # "."
       THEN SubSeq(p, 1, dotIndex - 1)
       ELSE p

\* os.path.join(a, b)
join(a, b) ==
    IF b # << >> /\ Head(b) = "/" THEN b
    ELSE IF a = << >> \/ a[Len(a)] = "/" THEN a \o b
    ELSE a \o <<"/">> \o b

\* os.path.basename(p)
basename(p) == SubSeq(p, LastIndex(p, "/") + 1, Len(p))

\* the value None of an unset File attribute (no path is the empty string)
None == << >>

\* ------------------------------------------------------------------------
\* Python dict operations (a dict is a sequence of [key, val] in insertion
\* order with pairwise distinct keys)
\* ------------------------------------------------------------------------
EmptyDict == << >>

\* d[k] = v : replaces the value of an existing key, else appends the item
DictSet(d, k, v) ==
    IF \E j \in 1..Len(d) : d[j].key = k
    THEN [j \in 1..Len(d) |-> IF d[j].key = k THEN [key |-> k, val |-> v] ELSE d[j]]
    ELSE Append(d, [key |-> k, val |-> v])

\* self.data = {} and self.data[field_name] = value
EmptyData == [f \in {} |-> << >>]

DataSet(data, f, v) ==
    [g \in (DOMAIN data) \cup {f} |-> IF g = f THEN v ELSE data[g]]

\* ------------------------------------------------------------------------
\* class File
\* ------------------------------------------------------------------------
\* File.__init__
NewFile(directory, file_name) ==
    [name |-> file_name,
     directory |-> directory,
     path |-> join(directory, file_name),
     message |-> None,
     data |-> EmptyData,
     target_par_dir |-> None,
     target_sub_dir |-> None,
     target_path |-> None]

\* the outcome of a method call: the exception raised ("None" when it
\* returned), the arguments of the exception and the File after the call
Returned(file) == [raised |-> "None", reason |-> "None", args |-> << >>, file |-> file]

Raised(exc, reason, args, file) ==
    [raised |-> exc, reason |-> reason, args |-> args, file |-> file]

\* value in req, req a Python list
InList(v, req) == \E k \in 1..Len(req) : req[k] = v

\* the loop of name_check over fields_config from position i on
RECURSIVE name_check_loop(_, _, _, _)
name_check_loop(file, fields_config, fn_fields, i) ==
    IF i > Len(fields_config) THEN Returned(file)
    ELSE LET field_name == fields_config[i].name
             req == fields_config[i].req
             fn_field_str == strip(fn_fields[i])
         IN IF req # << >> /\ ~InList(upper(strip(fn_field_str)), req)
            THEN Raised("InvalidFileNameError", "InvalidFieldValue",
                        <<field_name, i, fn_field_str, req>>, file)
            ELSE name_check_loop(
                   [file EXCEPT !.data = DataSet(file.data, field_name, fn_field_str)],
                   fields_config, fn_fields, i + 1)

\* name_check raising InvalidFileNameError for a name with too few segments
name_check_wrong_error(file, fields_config) ==
    LET fn_fields == split(splitext_root(file.name), "-")
    IN IF Len(fn_fields) < Len(fields_config)
       THEN Raised("InvalidFileNameError", "InsufficientFields", << >>, file)
       ELSE name_check_loop(file, fields_config, fn_fields, 1)

\* File.name_check
name_check(file, fields_config) ==
    LET fn_fields == split(splitext_root(file.name), "-")
    IN IF Len(fn_fields) < Len(fields_config)
       THEN Raised("InsufficientEntriesError", "InsufficientFields", << >>, file)
       ELSE name_check_loop(file, fields_config, fn_fields, 1)

\* the list parent_dirs built by the first loop of find_par_dir
RECURSIVE parent_dirs_of(_, _)
parent_dirs_of(value, target_paths) ==
    IF target_paths = << >> THEN << >>
    ELSE LET item == Head(target_paths)
             rest == parent_dirs_of(value, Tail(target_paths))
         IN IF Contains(lower(remove_spaces(value)), item.key)
            THEN <<item.val>> \o rest
            ELSE rest

\* File.find_par_dir
find_par_dir(file, par_dir_field, target_paths) ==
    IF par_dir_field \notin DOMAIN file.data
    THEN Raised("KeyError", "KeyError", <<par_dir_field>>, file)
    ELSE LET parent_dirs == parent_dirs_of(file.data[par_dir_field], target_paths)
         IN IF Len(parent_dirs) > 1
            THEN Raised("InvalidMatchError", "AmbiguousParentMatch",
                        <<par_dir_field, [k \in 1..Len(parent_dirs) |-> basename(parent_dirs[k])]>>,
                        file)
            ELSE IF parent_dirs = << >>
            THEN Raised("InvalidMatchError", "NoParentMatch",
                        <<par_dir_field, file.data[par_dir_field]>>, file)
            ELSE Returned([file EXCEPT !.target_par_dir = parent_dirs[1]])

\* ------------------------------------------------------------------------
\* The file system.  The target tree is the sequence, in scandir order, of
\* the entries of the target directory: [name, is_dir, entries]; entries is
\* the sequence, in scandir order, of the entries of a directory:
\* [name, is_dir, files], files the names of the regular files inside.
\* The source tree is the sequence os.walk yields: [root, filenames].
\* ------------------------------------------------------------------------
\* config["target"]["path"] and config["source"]["path"]
TargetPath == <<"/", "t">>
SourcePath == <<"/", "s">>

\* scandir(self._target_path): the DirEntry objects of the target directory
scandir_target(tree) ==
    [k \in 1..Len(tree) |->
        [name |-> tree[k].name,
         path |-> join(TargetPath, tree[k].name),
         is_dir |-> tree[k].is_dir]]

\* scandir(p) for a directory p directly below the target directory
scandir(p, tree) ==
    LET k == CHOOSE j \in 1..Len(tree) : join(TargetPath, tree[j].name) = p
        es == tree[k].entries
    IN [j \in 1..Len(es) |->
          [name |-> es[j].name, path |-> join(p, es[j].name), is_dir |-> es[j].is_dir]]

\* os.path.isdir(p) inside the target tree
isdir(p, tree) ==
    \/ p = TargetPath
    \/ \E k \in 1..Len(tree) :
         /\ tree[k].is_dir
         /\ \/ p = join(TargetPath, tree[k].name)
            \/ \E j \in 1..Len(tree[k].entries) :
                 /\ tree[k].entries[j].is_dir
                 /\ p = join(join(TargetPath, tree[k].name), tree[k].entries[j].name)

\* os.path.isfile(p) inside the target tree
isfile(p, tree) ==
    \E k \in 1..Len(tree) :
       \/ ~tree[k].is_dir /\ p = join(TargetPath, tree[k].name)
       \/ /\ tree[k].is_dir
          /\ \E j \in 1..Len(tree[k].entries) :
               LET e == tree[k].entries[j]
                   ep == join(join(TargetPath, tree[k].name), e.name)
               IN \/ ~e.is_dir /\ p = ep
                  \/ e.is_dir /\ \E n \in e.files : p = join(ep, n)

\* the list sub_dirs built by the first loop of find_sub_dir
RECURSIVE sub_dirs_of(_, _)
sub_dirs_of(value, listing) ==
    IF listing = << >> THEN << >>
    ELSE LET f == Head(listing)
             rest == sub_dirs_of(value, Tail(listing))
         IN IF Contains(lower(value), lower(f.name))
            THEN <<f.path>> \o rest
            ELSE rest

\* find_sub_dir without the test for a file of the same name
find_sub_dir_no_isfile(file, sub_dir_field, par_dir_field, tree) ==
    IF sub_dir_field \notin DOMAIN file.data
    THEN Raised("KeyError", "KeyError", <<sub_dir_field>>, file)
    ELSE LET sub_dirs == sub_dirs_of(file.data[sub_dir_field],
                                     scandir(file.target_par_dir, tree))
         IN IF sub_dirs = << >>
            THEN Raised("InvalidMatchError", "NoSubMatch",
                        <<file.data[sub_dir_field], par_dir_field,
                          basename(file.target_par_dir)>>, file)
            ELSE IF Len(sub_dirs) > 1
            THEN Raised("InvalidMatchError", "AmbiguousSubMatch",
                        <<file.data[sub_dir_field], basename(file.target_par_dir)>>, file)
            ELSE Returned([file EXCEPT !.target_sub_dir = sub_dirs[1],
                                       !.target_path = join(sub_dirs[1], file.name)])

\* File.find_sub_dir
find_sub_dir(file, sub_dir_field, par_dir_field, tree) ==
    IF sub_dir_field \notin DOMAIN file.data
    THEN Raised("KeyError", "KeyError", <<sub_dir_field>>, file)
    ELSE LET sub_dirs == sub_dirs_of(file.data[sub_dir_field],
                                     scandir(file.target_par_dir, tree))
         IN IF sub_dirs = << >>
            THEN Raised("InvalidMatchError", "NoSubMatch",
                        <<file.data[sub_dir_field], par_dir_field,
                          basename(file.target_par_dir)>>, file)
            ELSE IF Len(sub_dirs) > 1
            THEN Raised("InvalidMatchError", "AmbiguousSubMatch",
                        <<file.data[sub_dir_field], basename(file.target_par_dir)>>, file)
            ELSE IF isfile(join(sub_dirs[1], file.name), tree)
            THEN Raised("InvalidMatchError", "DestinationCollision",
                        <<basename(file.target_par_dir), basename(sub_dirs[1])>>, file)
            ELSE Returned([file EXCEPT !.target_sub_dir = sub_dirs[1],
                                       !.target_path = join(sub_dirs[1], file.name)])

\* ------------------------------------------------------------------------
\* class AutoFile
\* ------------------------------------------------------------------------
\* the first loop of run_matches: the dict target_paths over the
\* directories of the target directory, keyed by the normalized name
RECURSIVE build_target_paths(_, _)
build_target_paths(listing, target_paths) ==
    IF listing = << >> THEN target_paths
    ELSE LET f == Head(listing)
         IN build_target_paths(Tail(listing),
              IF f.is_dir
              THEN DictSet(target_paths, lower(remove_spaces(f.name)), f.path)
              ELSE target_paths)

\* any(path in root for path in self._source_ignore)
ignored(root, source_ignore) ==
    \E k \in 1..Len(source_ignore) : Contains(source_ignore[k], root)

\* the try block of run_matches for one file, up to its first exception
try_block(root, fn, config, target_paths, tree) ==
    LET r1 == name_check(NewFile(root, fn), config.fields_config)
        r2 == find_par_dir(r1.file, config.par_dir_field, target_paths)
        r3 == find_sub_dir(r2.file, config.sub_dir_field, config.par_dir_field, tree)
    IN IF r1.raised # "None" THEN r1
       ELSE IF r2.raised # "None" THEN r2
       ELSE r3

\* the except clauses without the one for InvalidMatchError
except_clause_no_match_handler(raised) ==
    CASE raised = "None" -> "matched"
      [] raised = "InsufficientEntriesError" -> "skipped"
      [] raised = "InvalidFileNameError" -> "failed"
      [] OTHER -> "exit"

\* the except clauses of run_matches: what becomes of the file for each
\* exception of the try block ("None": the block ran to its end)
except_clause(raised) ==
    CASE raised = "None" -> "matched"
      [] raised = "InsufficientEntriesError" -> "skipped"
      [] raised = "InvalidFileNameError" -> "failed"
      [] raised = "InvalidMatchError" -> "failed"
      [] OTHER -> "exit"

\* the category the failure message of run_matches names
category(raised) ==
    CASE raised = "InvalidFileNameError" -> "InvalidFileName"
      [] raised = "InvalidMatchError" -> "InvalidMatch"
      [] OTHER -> "None"

\* s_file.set_message(...) of run_matches; the message keeps the tag, the
\* file name, the category and the reason of the printed text
set_message(file, tag, r) ==
    [file EXCEPT !.message = [tag |-> tag, name |-> file.name,
                              category |-> category(r.raised),
                              reason |-> r.reason, args |-> r.args]]

\* the loop body with a skipped file that is not counted as skipped
walk_file_skip_uncounted(acc, root, fn, config, target_paths, tree) ==
    LET counted == [acc EXCEPT !.total_files = @ + 1]
        r == try_block(root, fn, config, target_paths, tree)
        what == except_clause(r.raised)
    IN CASE what = "matched" ->
              [acc |-> [counted EXCEPT !.matched_files =
                          Append(@, set_message(r.file, "MATCHED", r))],
               exited |-> FALSE]
         [] what = "skipped" -> [acc |-> counted, exited |-> FALSE]
         [] what = "failed" ->
              [acc |-> [counted EXCEPT !.failed_files =
                          Append(@, set_message(r.file, "FAILED", r))],
               exited |-> FALSE]
         [] OTHER -> [acc |-> counted, exited |-> TRUE]

\* the body of the inner loop of run_matches for the file fn of directory
\* root; acc holds _total_files, _skipped, _matched_files, _failed_files
walk_file(acc, root, fn, config, target_paths, tree) ==
    LET counted == [acc EXCEPT !.total_files = @ + 1]
        r == try_block(root, fn, config, target_paths, tree)
        what == except_clause(r.raised)
    IN CASE what = "matched" ->
              [acc |-> [counted EXCEPT !.matched_files =
                          Append(@, set_message(r.file, "MATCHED", r))],
               exited |-> FALSE]
         [] what = "skipped" ->
              [acc |-> [counted EXCEPT !.skipped = @ + 1], exited |-> FALSE]
         [] what = "failed" ->
              [acc |-> [counted EXCEPT !.failed_files =
                          Append(@, set_message(r.file, "FAILED", r))],
               exited |-> FALSE]
         [] OTHER -> [acc |-> counted, exited |-> TRUE]

\* the logging.info call that ends run_matches, with the lists it counts
summary(acc) ==
    [total_scanned |-> acc.total_files,
     matched |-> acc.matched_files,
     failed |-> acc.failed_files,
     skipped |-> acc.skipped]

\* input(...).strip().lower() of run_transfers
read_resp(line) == lower(strip(line))

\* ------------------------------------------------------------------------
\* Inputs: configurations, source trees and target trees
\* ------------------------------------------------------------------------
\* file names of the source tree
fn_A1 == <<"A", "-", "1", ".", "p">>
fn_a1 == <<"a", " ", "-", "1", ".", "p">>
fn_x == <<"x", ".", "p">>
fn_x1 == <<"x", "-", "1", ".", "p">>
fn_A2 == <<"A", "-", "2", ".", "p">>

FilePool == {fn_A1, fn_a1, fn_x, fn_x1, fn_A2}

\* entries of the target directory
top_A_c == [name |-> <<"A", " ", "c">>, is_dir |-> TRUE,
            entries |-> << [name |-> <<"1", "-", "i", "n">>, is_dir |-> TRUE, files |-> {}] >>]
top_Ac == [name |-> <<"A", "c">>, is_dir |-> TRUE,
           entries |-> << [name |-> <<"1">>, is_dir |-> TRUE, files |-> {fn_A1}] >>]
top_Ab == [name |-> <<"A", "b">>, is_dir |-> TRUE,
           entries |-> << [name |-> <<"1", ".", "t">>, is_dir |-> FALSE, files |-> {}] >>]
top_xA == [name |-> <<"x", "A">>, is_dir |-> TRUE,
           entries |-> << [name |-> <<"1">>, is_dir |-> TRUE, files |-> {}],
                          [name |-> <<"2", "1">>, is_dir |-> TRUE, files |-> {}] >>]
top_file == [name |-> <<"A">>, is_dir |-> FALSE, entries |-> << >>]

TopPool == {top_A_c, top_Ac, top_Ab, top_xA, top_file}

\* the sequences without repetition of at most n elements of S (a directory
\* listing names each entry once)
RECURSIVE Listings(_, _)
Listings(S, n) ==
    IF n = 0 THEN { << >> }
    ELSE LET shorter == Listings(S, n - 1)
         IN shorter \cup
            { Append(l, x) : <<l, x>> \in
                { q \in shorter \X S : \A k \in 1..Len(q[1]) : q[1][k] # q[2] } }

\* fields_config of the configuration file
fields_upper == << [name |-> "client", req |-> << <<"A">>, <<"G">> >>],
                   [name |-> "year", req |-> << >>] >>
fields_lower == << [name |-> "client", req |-> << <<"a">> >>],
                   [name |-> "year", req |-> << >>] >>
fields_open == << [name |-> "client", req |-> << >>],
                  [name |-> "year", req |-> << >>] >>

Configs ==
    { [fields_config |-> fc, par_dir_field |-> "client", sub_dir_field |-> "year",
       source_ignore |-> << >>] :
        fc \in {fields_upper, fields_lower, fields_open} }
    \cup
    { [fields_config |-> fields_upper, par_dir_field |-> "client",
       sub_dir_field |-> "year", source_ignore |-> << <<"o">> >>],
      [fields_config |-> fields_upper, par_dir_field |-> "dept",
       sub_dir_field |-> "year", source_ignore |-> << >>] }

\* what os.walk yields: the source directory with its files, then its
\* sub-directory o with one file
SourceTrees ==
    { << [root |-> SourcePath, filenames |-> fs],
         [root |-> join(SourcePath, <<"o">>), filenames |-> <<fn_A1>>] >> :
        fs \in Listings(FilePool, MaxFiles) }

TargetTrees == Listings(TopPool, MaxTop)

\* lines the user may type at the prompt of run_transfers
Lines == { <<"y">>, <<"Y", " ">>, <<"n">>, <<"x">> }

\* ------------------------------------------------------------------------
\* State
\* ------------------------------------------------------------------------
VARIABLES
    config,          \* the attributes parse_config sets
    source,          \* the source tree
    target,          \* the target tree
    pc,              \* where the program is
    target_paths,    \* the dict of run_matches
    di, fi,          \* position of the walk: directory and file
    total_files,     \* self._total_files
    skipped,         \* self._skipped
    matched_files,   \* self._matched_files
    failed_files,    \* self._failed_files
    runs,            \* calls of run_matches that returned
    returned,        \* the summary logged at each return of run_matches
    resp,            \* resp of run_transfers
    ti,              \* position of the transfer loop
    transfered,      \* transfered of run_transfers
    printed          \* the DONE / FAILED! lines printed by run_transfers

vars == <<config, source, target, pc, target_paths, di, fi, total_files,
          skipped, matched_files, failed_files, runs, returned, resp, ti,
          transfered, printed>>

world == <<config, source, target>>
walk == <<target_paths, di, fi>>
counters == <<total_files, skipped, matched_files, failed_files>>
transfer == <<resp, ti, transfered, printed>>

acc_now == [total_files |-> total_files, skipped |-> skipped,
            matched_files |-> matched_files, failed_files |-> failed_files]

\* AutoFile.__init__ followed by parse_config
Init ==
    /\ config \in Configs
    /\ source \in SourceTrees
    /\ target \in TargetTrees
    /\ pc = "idle"
    /\ target_paths = EmptyDict
    /\ di = 1 /\ fi = 1
    /\ total_files = 0
    /\ skipped = 0
    /\ matched_files = << >>
    /\ failed_files = << >>
    /\ runs = 0
    /\ returned = << >>
    /\ resp = << >>
    /\ ti = 1
    /\ transfered = 0
    /\ printed = << >>

\* ------------------------------------------------------------------------
\* run_matches
\* ------------------------------------------------------------------------
\* run_matches is called: the target directory is scanned
RunMatchesStart ==
    /\ pc \in {"idle", "matched"}
    /\ runs < MaxRuns
    /\ target_paths' = build_target_paths(scandir_target(target), EmptyDict)
    /\ di' = 1 /\ fi' = 1
    /\ pc' = "walk"
    /\ UNCHANGED <<world, counters, runs, returned, transfer>>

\* os.walk yields a directory of the ignore list: continue
WalkIgnoredDir ==
    /\ pc = "walk"
    /\ di <= Len(source)
    /\ ignored(source[di].root, config.source_ignore)
    /\ di' = di + 1 /\ fi' = 1
    /\ UNCHANGED <<world, pc, target_paths, counters, runs, returned, transfer>>

\* one iteration of the inner loop that classifies the file
WalkFile ==
    /\ pc = "walk"
    /\ di <= Len(source)
    /\ ~ignored(source[di].root, config.source_ignore)
    /\ fi <= Len(source[di].filenames)
    /\ LET res == walk_file(acc_now, source[di].root, source[di].filenames[fi],
                            config, target_paths, target)
       IN /\ ~res.exited
          /\ total_files' = res.acc.total_files
          /\ skipped' = res.acc.skipped
          /\ matched_files' = res.acc.matched_files
          /\ failed_files' = res.acc.failed_files
    /\ fi' = fi + 1
    /\ UNCHANGED <<world, pc, target_paths, di, runs, returned, transfer>>

\* one iteration of the inner loop that ends in the bare except: exit()
WalkFileExit ==
    /\ pc = "walk"
    /\ di <= Len(source)
    /\ ~ignored(source[di].root, config.source_ignore)
    /\ fi <= Len(source[di].filenames)
    /\ LET res == walk_file(acc_now, source[di].root, source[di].filenames[fi],
                            config, target_paths, target)
       IN /\ res.exited
          /\ total_files' = res.acc.total_files
          /\ skipped' = res.acc.skipped
          /\ matched_files' = res.acc.matched_files
          /\ failed_files' = res.acc.failed_files
    /\ pc' = "unexpected"
    /\ UNCHANGED <<world, walk, runs, returned, transfer>>

\* the inner loop is over: os.walk yields the next directory
WalkNextDir ==
    /\ pc = "walk"
    /\ di <= Len(source)
    /\ ~ignored(source[di].root, config.source_ignore)
    /\ fi > Len(source[di].filenames)
    /\ di' = di + 1 /\ fi' = 1
    /\ UNCHANGED <<world, pc, target_paths, counters, runs, returned, transfer>>

\* the walk is over: the totals are logged and run_matches returns
RunMatchesEnd ==
    /\ pc = "walk"
    /\ di > Len(source)
    /\ returned' = Append(returned, summary(acc_now))
    /\ runs' = runs + 1
    /\ pc' = "matched"
    /\ UNCHANGED <<world, walk, counters, transfer>>

\* ------------------------------------------------------------------------
\* run_transfers
\* ------------------------------------------------------------------------
\* no files to transfer: exit()
RunTransfersNoFiles ==
    /\ pc = "matched"
    /\ matched_files = << >>
    /\ pc' = "exited"
    /\ UNCHANGED <<world, walk, counters, runs, returned, transfer>>

\* the confirmation prompt is printed
RunTransfersPrompt ==
    /\ pc = "matched"
    /\ matched_files # << >>
    /\ resp' = << >>
    /\ pc' = "prompt"
    /\ UNCHANGED <<world, walk, counters, runs, returned, ti, transfered, printed>>

\* resp = input(...).strip().lower(), asked again while resp is not y or n
PromptRead ==
    /\ pc = "prompt"
    /\ resp \notin {<<"y">>, <<"n">>}
    /\ \E line \in Lines : resp' = read_resp(line)
    /\ UNCHANGED <<world, pc, walk, counters, runs, returned, ti, transfered, printed>>

\* resp == "n": exit()
PromptNo ==
    /\ pc = "prompt"
    /\ resp = <<"n">>
    /\ pc' = "exited"
    /\ UNCHANGED <<world, walk, counters, runs, returned, transfer>>

\* resp == "y": the transfer loop starts
PromptYes ==
    /\ pc = "prompt"
    /\ resp = <<"y">>
    /\ ti' = 1
    /\ transfered' = 0
    /\ pc' = "transfer"
    /\ UNCHANGED <<world, walk, counters, runs, returned, resp, printed>>

\* one iteration of the transfer loop: the call of rename is commented
\* out, the body prints DONE and counts the file; no file is moved
TransferFile ==
    /\ pc = "transfer"
    /\ ti <= Len(matched_files)
    /\ printed' = Append(printed, [name |-> matched_files[ti].name, status |-> "DONE"])
    /\ transfered' = transfered + 1
    /\ ti' = ti + 1
    /\ UNCHANGED <<world, pc, walk, counters, runs, returned, resp>>

\* the transfer loop is over: the total is printed and run_transfers returns
RunTransfersEnd ==
    /\ pc = "transfer"
    /\ ti > Len(matched_files)
    /\ pc' = "done"
    /\ UNCHANGED <<world, walk, counters, runs, returned, transfer>>

Next ==
    \/ RunMatchesStart
    \/ WalkIgnoredDir
    \/ WalkFile
    \/ WalkFileExit
    \/ WalkNextDir
    \/ RunMatchesEnd
    \/ RunTransfersNoFiles
    \/ RunTransfersPrompt
    \/ PromptRead
    \/ PromptNo
    \/ PromptYes
    \/ TransferFile
    \/ RunTransfersEnd

Spec == Init /\ [][Next]_vars

\* ------------------------------------------------------------------------
\* Vocabulary of the properties
\* ------------------------------------------------------------------------
\* the walk stands before a file of a directory that is not ignored
AtFile ==
    /\ pc = "walk"
    /\ di <= Len(source)
    /\ ~ignored(source[di].root, config.source_ignore)
    /\ fi <= Len(source[di].filenames)

cur_root == source[di].root
cur_fn == source[di].filenames[fi]

\* the step is one iteration of the inner loop of run_matches
FileStep == AtFile /\ total_files' = total_files + 1

\* the walk has just classified a file, and which one
Classified == pc = "walk" /\ di <= Len(source) /\ fi > 1
prev_fn == source[di].filenames[fi - 1]

\* number of segments of the stem of a file name: one more than its dashes
stem_of(fn) == splitext_root(fn)
SegmentCount(fn) ==
    1 + Cardinality({k \in 1..Len(stem_of(fn)) : stem_of(fn)[k] = "-"})

\* the step adds one file to the matched list / to the failed list
NowMatched == matched_files' # matched_files
NowFailed == failed_files' # failed_files
new_matched == matched_files'[Len(matched_files')]
new_failed == failed_files'[Len(failed_files')]
last_failed == failed_files[Len(failed_files)]

\* the value of a segment after trimming, compared ignoring case
SameIgnoringCase(a, b) == lower(a) = lower(b)

\* segment i of the name is accepted by rule i, case-insensitively
AcceptedIgnoringCase(fn, fields_config, i) ==
    \/ fields_config[i].req = << >>
    \/ \E k \in 1..Len(fields_config[i].req) :
         SameIgnoringCase(strip(split(stem_of(fn), "-")[i]), fields_config[i].req[k])

AllAcceptedIgnoringCase(fn, fields_config) ==
    \A i \in 1..Len(fields_config) : AcceptedIgnoringCase(fn, fields_config, i)

\* ------------------------------------------------------------------------
\* C1
\* ------------------------------------------------------------------------
\* C1: a file whose stem has fewer dash-separated segments than
\* fields_config has entries is Skipped: the skipped counter grows by one,
\* the matched and the failed list stay as they are and the walk goes on,
\* whatever the segments contain.
C1_FewerSegmentsSkipped ==
    [][ (FileStep /\ SegmentCount(cur_fn) < Len(config.fields_config))
        => /\ skipped' = skipped + 1
           /\ matched_files' = matched_files
           /\ failed_files' = failed_files
           /\ pc' = "walk" ]_vars

\* a file with one segment, which its rule does not allow, was skipped
C1_Witness ==
    /\ Classified
    /\ skipped >= 1
    /\ SegmentCount(prev_fn) < Len(config.fields_config)
    /\ ~AcceptedIgnoringCase(prev_fn, config.fields_config, 1)
    /\ matched_files = << >> /\ failed_files = << >>

\* ------------------------------------------------------------------------
\* C2
\* ------------------------------------------------------------------------
\* C2: for a file with at least as many segments as configured fields, the
\* file is Failed with category InvalidFileName exactly when some trimmed
\* segment is not accepted, ignoring case, by the allowed set of its rule,
\* whatever the letter case of the configured members.
C2_CaseInsensitiveCheck ==
    [][ (FileStep /\ SegmentCount(cur_fn) >= Len(config.fields_config))
        => ( (NowFailed /\ new_failed.message.category = "InvalidFileName")
             <=> ~AllAcceptedIgnoringCase(cur_fn, config.fields_config) ) ]_vars

\* ------------------------------------------------------------------------
\* C3
\* ------------------------------------------------------------------------
\* the file passes the name check and the parent field is a configured one
PassesNameCheck(root, fn) ==
    LET r == name_check(NewFile(root, fn), config.fields_config)
    IN r.raised = "None" /\ config.par_dir_field \in DOMAIN r.file.data

parent_value(root, fn) ==
    name_check(NewFile(root, fn), config.fields_config).file.data[config.par_dir_field]

\* the top-level directories of the target tree whose normalized name
\* contains the normalized value
ParentCandidates(value) ==
    { k \in 1..Len(target) :
        /\ target[k].is_dir
        /\ Contains(lower(remove_spaces(value)), lower(remove_spaces(target[k].name))) }

SubReasons == {"NoSubMatch", "AmbiguousSubMatch", "DestinationCollision"}

\* the step resolved the parent folder of its file to the path p
ParentResolvedTo(p) ==
    \/ NowMatched /\ new_matched.target_par_dir = p
    \/ NowFailed /\ new_failed.message.reason \in SubReasons
                 /\ new_failed.target_par_dir = p

\* C3: for a file that passed the name check, exactly one top-level
\* directory of the target tree whose normalized name contains the
\* normalized parent value gives success with that directory's path, none
\* gives NoParentMatch, two or more give AmbiguousParentMatch (also when
\* two directories normalize to the same key).
C3_ParentByCandidateCount ==
    [][ (FileStep /\ PassesNameCheck(cur_root, cur_fn))
        => LET cands == ParentCandidates(parent_value(cur_root, cur_fn))
           IN /\ Cardinality(cands) = 0
                   => NowFailed /\ new_failed.message.reason = "NoParentMatch"
              /\ Cardinality(cands) >= 2
                   => NowFailed /\ new_failed.message.reason = "AmbiguousParentMatch"
              /\ Cardinality(cands) = 1
                   => \A k \in cands :
                        ParentResolvedTo(join(TargetPath, target[k].name)) ]_vars

\* ------------------------------------------------------------------------
\* C4
\* ------------------------------------------------------------------------
\* the entries of the directory p of the target tree, as the tree has them
entries_of(p) ==
    target[CHOOSE k \in 1..Len(target) : join(TargetPath, target[k].name) = p].entries

\* the entries of the parent folder whose name contains the value,
\* ignoring case
SubCandidates(p, value) ==
    { j \in 1..Len(entries_of(p)) :
        Contains(lower(value), lower(entries_of(p)[j].name)) }

\* C4: the target_sub_dir of a matched file is a directory, an immediate
\* child of the resolved parent folder and the only entry of the parent
\* whose name contains the sub-field value ignoring case, and target_path
\* is target_sub_dir joined with the file's name.
C4_SubDirIsDirectory ==
    \A k \in 1..Len(matched_files) :
        LET f == matched_files[k]
            cands == SubCandidates(f.target_par_dir, f.data[config.sub_dir_field])
        IN /\ Cardinality(cands) = 1
           /\ \A j \in cands :
                /\ entries_of(f.target_par_dir)[j].is_dir
                /\ f.target_sub_dir = join(f.target_par_dir, entries_of(f.target_par_dir)[j].name)
           /\ isdir(f.target_sub_dir, target)
           /\ f.target_path = join(f.target_sub_dir, f.name)

\* ------------------------------------------------------------------------
\* C5
\* ------------------------------------------------------------------------
\* the parent of the file resolves, exactly one entry of the parent matches
\* the sub-field value and holds a regular file of the file's name
CollisionCase(root, fn) ==
    /\ PassesNameCheck(root, fn)
    /\ config.sub_dir_field \in DOMAIN name_check(NewFile(root, fn), config.fields_config).file.data
    /\ LET r1 == name_check(NewFile(root, fn), config.fields_config)
           r2 == find_par_dir(r1.file, config.par_dir_field, target_paths)
       IN /\ r2.raised = "None"
          /\ LET p == r2.file.target_par_dir
                 cands == SubCandidates(p, r1.file.data[config.sub_dir_field])
             IN /\ Cardinality(cands) = 1
                /\ \A j \in cands :
                     /\ entries_of(p)[j].is_dir
                     /\ fn \in entries_of(p)[j].files

\* C5: when the parent resolved, exactly one sub-folder candidate matched
\* and a file of the identical name exists inside it, the file is Failed
\* with category InvalidMatch and reason DestinationCollision, and its
\* target_sub_dir and target_path stay unset.
C5_CollisionFails ==
    [][ (FileStep /\ CollisionCase(cur_root, cur_fn))
        => /\ NowFailed
           /\ matched_files' = matched_files
           /\ new_failed.name = cur_fn
           /\ new_failed.message.category = "InvalidMatch"
           /\ new_failed.message.reason = "DestinationCollision"
           /\ new_failed.target_sub_dir = None
           /\ new_failed.target_path = None ]_vars

\* a file was just failed for a collision in the only matching sub-folder
C5_Witness ==
    /\ Classified
    /\ failed_files # << >>
    /\ last_failed.name = prev_fn
    /\ last_failed.message.reason = "DestinationCollision"
    /\ last_failed.target_par_dir # None
    /\ Cardinality(SubCandidates(last_failed.target_par_dir,
                                 last_failed.data[config.sub_dir_field])) = 1

\* ------------------------------------------------------------------------
\* C6
\* ------------------------------------------------------------------------
\* a regular file of this path is in the source tree
in_source(p) ==
    \E d \in 1..Len(source) : \E j \in 1..Len(source[d].filenames) :
        p = join(source[d].root, source[d].filenames[j])

\* C6: after the user answered y, every file of the matched list was
\* attempted, and a file whose attempt succeeded exists at its target_path
\* and no longer at its source path.
C6_TransferMovesFiles ==
    pc = "done"
    => /\ Len(printed) = Len(matched_files)
       /\ \A k \in 1..Len(printed) :
            printed[k].status = "DONE"
            => /\ isfile(matched_files[k].target_path, target)
               /\ ~in_source(matched_files[k].path)

\* ------------------------------------------------------------------------
\* C7
\* ------------------------------------------------------------------------
PerFileErrors == {"InsufficientEntriesError", "InvalidFileNameError", "InvalidMatchError"}

\* the files of the directories of the source tree that are not ignored
RECURSIVE CountedFiles(_)
CountedFiles(d) ==
    IF d > Len(source) THEN 0
    ELSE (IF ignored(source[d].root, config.source_ignore)
          THEN 0 ELSE Len(source[d].filenames)) + CountedFiles(d + 1)

\* the step turns the error of its file into Skipped or Failed of that file
\* and the walk stands before the next file
ErrorKeptLocal ==
    /\ pc' = "walk" /\ di' = di /\ fi' = fi + 1
    /\ matched_files' = matched_files
    /\ \/ skipped' = skipped + 1 /\ failed_files' = failed_files
       \/ /\ skipped' = skipped
          /\ Len(failed_files') = Len(failed_files) + 1
          /\ new_failed.name = cur_fn

C7_step ==
    (FileStep /\ try_block(cur_root, cur_fn, config, target_paths, target).raised
                   \in PerFileErrors)
    => ErrorKeptLocal

\* C7: a per-file error never aborts the walk: it becomes the Skipped or
\* Failed outcome of its own file, the walk goes on with the next file, and
\* when the first run_matches returns every file of a directory that is not
\* ignored has been counted and classified.
C7_ErrorsNeverAbort ==
    /\ [][C7_step]_vars
    /\ []( (pc = "matched" /\ runs = 1)
           => /\ total_files = CountedFiles(1)
              /\ Len(matched_files) + Len(failed_files) + skipped = CountedFiles(1) )

\* a file of the source directory failed and a later file, of the
\* sub-directory, was still classified Matched
C7_Witness ==
    /\ pc = "matched" /\ runs = 1
    /\ failed_files # << >> /\ matched_files # << >>
    /\ failed_files[1].directory = SourcePath
    /\ failed_files[1].message.category = "InvalidMatch"
    /\ matched_files[1].directory # SourcePath

\* ------------------------------------------------------------------------
\* C8
\* ------------------------------------------------------------------------
paths_of(files) == { files[k].path : k \in 1..Len(files) }

\* C8: between two files of the walk and after run_matches returned,
\* total_scanned = matched + failed + skipped, and no file is in both the
\* matched and the failed list.
C8_Partition ==
    pc # "unexpected"
    => /\ total_files = Len(matched_files) + Len(failed_files) + skipped
       /\ paths_of(matched_files) \cap paths_of(failed_files) = {}

\* a walk that has one file of each classification
C8_Witness ==
    /\ pc = "matched" /\ runs = 1
    /\ skipped = 1 /\ Len(matched_files) = 1 /\ Len(failed_files) = 1
    /\ total_files = 3

\* ------------------------------------------------------------------------
\* C9
\* ------------------------------------------------------------------------
\* C9: run_matches run twice on the same unchanged trees and configuration
\* yields after the second run the totals, matched files, failed files and
\* skipped count it yielded after the first.
C9_SecondRunSameResult ==
    Len(returned) >= 2 => returned[2] = returned[1]

\* ------------------------------------------------------------------------
\* C10
\* ------------------------------------------------------------------------
\* C10: after run_matches the target paths of the matched files are
\* pairwise distinct.
C10_DistinctTargetPaths ==
    (pc = "matched" /\ runs = 1)
    => \A i, j \in 1..Len(matched_files) :
          i # j => matched_files[i].target_path # matched_files[j].target_path
====
